---- MODULE Spec2Model ----
(***************************************************************************)
(* Model of the order routes of the storefront backend                     *)
(* (src/unnamed/part_000: the Express router mounted for orders), with     *)
(* the account routes and the product add and update routes.               *)
(*                                                                         *)
(* The persistent state is the three collections the handlers touch:       *)
(* Product (quantity per product), Cart (line items with a status) and     *)
(* Order (cart reference and owning user).  Every handler is an async      *)
(* function: it is suspended at each awaited persistence call, so one      *)
(* action of the model is one persistence call together with the           *)
(* synchronous code that runs between the previous call's result and it.   *)
(* A request's arrival is folded into its first persistence call.          *)
(* Requests run in request slots (Procs); Spec serves one request at a    *)
(* time, ConcSpec lets the slots interleave at their persistence calls.    *)
(* FaultSpec is Spec over a storage layer whose calls can reject,          *)
(* QuerySpec adds the search and list routes, RestockSpec interleaves the  *)
(* cancel handlers of two placed orders.  AuthSpec is the login route of   *)
(* the auth router (src/unnamed/part_002) with its requests interleaved,   *)
(* AccountSpec its login, register, forgot and reset routes one request    *)
(* at a time.  ProductSpec interleaves the add and update routes of the    *)
(* product router (src/unnamed/part_001), and InventorySpec serves the     *)
(* order routes and those two product routes one request at a time.        *)
(* Identifiers are well-formed ObjectIds unless a route tests them; the    *)
(* order's total is not modelled.                                          *)
(***************************************************************************)
EXTENDS Integers, Sequences, FiniteSets, TLC

\* ------------------------------------------------------------- bounds
\* Requests served over one behaviour of the model.
MaxRequests == 3
\* Largest page number and largest page size a list request asks for.
MaxPage == 2
MaxLimit == 2

\* ---------------------------------------------------------- constants
\* require('../../constants'): the two values the order routes read.
ROLES == [Admin |-> "ROLE ADMIN", Member |-> "ROLE MEMBER"]
CART_ITEM_STATUS ==
  [Not_processed |-> "Not processed", Processing |-> "Processing",
   Cancelled |-> "Cancelled"]

\* Request slots: two requests can be in flight together.
Procs == {1, 2}

\* Authenticated requesters (req.user, set by the auth middleware).
Users == {"u1", "u2", "admin"}
Role(u) == IF u = "admin" THEN ROLES.Admin ELSE ROLES.Member
\* The users who place orders; "u2" only ever asks about others' orders.
Buyers == {"u1", "admin"}

Products == {"pA", "pB"}
\* Cart identifiers a request can name; "c9" names no cart.
CartIds == {"c1", "c2", "c9"}
Items == {"i1", "i2", "i3"}

\* Absent documents and unset parameters.
NoCart == "none"
NoUser == "none"
NoItem == "none"
NoLines == << >>
NoOrder == [id |-> 0, cart |-> NoCart, user |-> NoUser]

\* require('../../constants'): the providers the auth routes read.
EMAIL_PROVIDER == [Email |-> "Email", Google |-> "Google"]
\* Email addresses a request can carry ("": none given).  "a@x" and "g@x"
\* are registered, "z@x" is not.
Emails == {"a@x", "g@x", "z@x", ""}
\* Passwords a request can carry ("": none given).
Passwords == {"pw1", "pw2", ""}
\* Reset tokens a request can carry in its path.
Tokens == {"t1", "t2"}
NoToken == "none"
\* No user document (findOne answered null).
NoDoc == 0
\* bcrypt.hash(password, salt) as stored, and bcrypt.compare against it.
NoHash == <<"none">>
Hash(password) == <<"bcrypt", password>>
Compare(password, hash) == hash = Hash(password)
\* req.query.search: a string that is a well-formed ObjectId (of order id)
\* or is not.
NoSearch == [valid |-> FALSE, id |-> 0]
NoSnapshot == [stock |-> << >>, carts |-> << >>, orders |-> << >>]

\* Products the add route can create, in the order their _ids are given.
NewProducts == <<"pC", "pD", "pE", "pF">>
NoProduct == "none"
\* req.body.sku (one in use, one free, "": the field is missing) and
\* req.body.quantity.
Skus == {"s1", "s3", ""}
Quantities == {-1, 0, 2}
NoSlug == "none"

VARIABLES
  stock,        \* Product collection: product -> quantity
  carts,        \* Cart collection: cart id -> sequence of line items
  orders,       \* Order collection: order id -> [cart, user]
  nextOrderId,  \* the _id the next Order.create gets
  pendingBulk,  \* Product.bulkWrite calls issued and not yet applied
  proc,         \* per slot: position, request parameters, locals, response
  nStarted,     \* requests started so far
  credited,     \* history: times each line's quantity was added to stock
  placed,       \* history: orders ever created per cart id
  users,        \* User collection: the documents, in insertion order
  skus          \* Product collection: product -> [sku, slug]

vars == <<stock, carts, orders, nextOrderId, pendingBulk, proc, nStarted,
          credited, placed, users, skus>>

\* A slot that serves no request.
Fresh ==
  [pc |-> "idle", op |-> "none", no |-> 0,
   user |-> NoUser, orderId |-> 0, cartId |-> NoCart, itemId |-> NoItem,
   status |-> "none",
   order |-> NoOrder,          \* const order / orderDoc
   foundCart |-> NoCart,       \* const foundCart (its _id)
   products |-> NoLines,       \* foundCart.products / cart.products as read
   own |-> FALSE,              \* history: itemId, orderId, cartId belong together
   wasCancelled |-> FALSE,     \* history: the line was Cancelled when found
   res |-> 0,                  \* HTTP status sent (0: none yet)
   success |-> FALSE, orderCancelled |-> FALSE,
   data |-> 0,                 \* _id of the order whose data the response carries
   mail |-> "none",            \* outcome of mailgun.sendEmail
   search |-> NoSearch,        \* req.query.search
   page |-> 0, limit |-> 0,    \* req.query.page, req.query.limit
   ordersDoc |-> << >>,        \* const ordersDoc (the _ids, in result order)
   list |-> << >>,             \* orders of the response (their _ids)
   count |-> 0, totalPages |-> 0, currentPage |-> 0,
   email |-> "", password |-> "",   \* req.body.email, req.body.password
   foundUser |-> NoDoc,        \* const user / existingUser (its position)
   hasName |-> FALSE,          \* req.body has firstName and lastName
   isSubscribed |-> FALSE,     \* req.body.isSubscribed
   resetToken |-> NoToken,     \* req.params.token
   existed |-> FALSE,          \* history: a user had the email when the request began
   isMatch |-> FALSE,          \* const isMatch
   token |-> FALSE,            \* the response carries a token and the user
   error |-> FALSE,            \* the response carries an error message
   unhandled |-> FALSE,        \* the handler's promise rejected
   productId |-> NoProduct,    \* req.params.id of a product update
   sku |-> "", slug |-> NoSlug,     \* sku and slug of the request body
   quantity |-> 0,             \* quantity of the request body
   before |-> NoSnapshot,      \* history: the collections when a cancel request began
   fault |-> "none",           \* history: the persistence call that rejected
   retry |-> FALSE]            \* history: repeats a request that failed after its restock

Line(i, p, q) ==
  [id |-> i, product |-> p, quantity |-> q,
   status |-> CART_ITEM_STATUS.Not_processed]

\* The carts built by the shopping flow before any order is placed.
InitCarts ==
  [c \in {"c1", "c2"} |->
     IF c = "c1" THEN <<Line("i1", "pA", 2), Line("i2", "pB", 1)>>
                 ELSE <<Line("i3", "pA", 1)>>]

\* The accounts registered before the requests of the model: one signed
\* up with email and password "pw1", one through Google (no password).
InitUsers ==
  <<[email |-> "a@x", password |-> Hash("pw1"),
     provider |-> EMAIL_PROVIDER.Email, resetPasswordToken |-> NoToken],
    [email |-> "g@x", password |-> NoHash,
     provider |-> EMAIL_PROVIDER.Google, resetPasswordToken |-> NoToken]>>

\* Product quantities when the first order is placed.
InitStock == [p \in Products |-> IF p = "pA" THEN 3 ELSE 0]

\* The sku and the slug of the products on sale.
InitSkus ==
  [p \in Products |->
     IF p = "pA" THEN [sku |-> "s1", slug |-> "pA"]
                 ELSE [sku |-> "s2", slug |-> "pB"]]

Init ==
  /\ stock = InitStock
  /\ carts = InitCarts
  /\ orders = << >>
  /\ nextOrderId = 1
  /\ pendingBulk = {}
  /\ proc = [p \in Procs |-> Fresh]
  /\ nStarted = 0
  /\ credited = [i \in Items |-> 0]
  /\ placed = [c \in CartIds |-> 0]
  /\ users = InitUsers
  /\ skus = InitSkus

\* ------------------------------------------------------------ helpers
Range(s) == {s[k] : k \in DOMAIN s}

Remove(f, x) == [k \in DOMAIN f \ {x} |-> f[k]]

\* Cart.findOne({ _id: id }): the cart's _id, or NoCart.
CartFindById(id) == IF id \in DOMAIN carts THEN id ELSE NoCart

\* Cart.findOne({ 'products._id': itemId }): the cart holding the line.
CartFindByItem(itemId) ==
  IF \E c \in DOMAIN carts : \E l \in Range(carts[c]) : l.id = itemId
    THEN CHOOSE c \in DOMAIN carts : \E l \in Range(carts[c]) : l.id = itemId
    ELSE NoCart

ProductsOf(c) == IF c \in DOMAIN carts THEN carts[c] ELSE NoLines

\* Order.findOne({ _id: id }).
OrderFindById(id) ==
  IF id \in DOMAIN orders
    THEN [id |-> id, cart |-> orders[id].cart, user |-> orders[id].user]
    ELSE NoOrder

\* Order ids a request can name: every order that exists, and one that does not.
OrderIdParams == DOMAIN orders \cup {nextOrderId}

Idle(p) == proc[p].pc \in {"idle", "done"}

\* A request is served in the lowest slot that is free.
CanStart(p) ==
  /\ Idle(p)
  /\ \A q \in Procs : q < p => ~Idle(q)
  /\ nStarted < MaxRequests

\* A new request in slot p.
Request(op) == [Fresh EXCEPT !.op = op, !.no = nStarted + 1]

\* sendErrorResponse(res, 'Please try again.'): the catch block of a handler.
sendErrorResponse(r) ==
  [r EXCEPT !.pc = "done", !.res = 400, !.foundCart = NoCart,
     !.products = NoLines, !.before = NoSnapshot]

\* res.status(200).json({ success: true, ... }); the handler's locals end here.
sendSuccess(r) ==
  [r EXCEPT !.pc = "done", !.res = 200, !.success = TRUE,
     !.foundCart = NoCart, !.products = NoLines, !.before = NoSnapshot]

Unchanged_db == UNCHANGED <<stock, carts, orders, nextOrderId, pendingBulk,
                            credited, placed, users, skus>>

\* The collections as a cancel request finds them.
Snapshot == [stock |-> stock, carts |-> carts, orders |-> orders]

\* The calls of the two cancel handlers that come after the restock was
\* issued and before Order.deleteOne has taken effect.
AfterRestock == {"cancel_deleteOrder", "item_findCart", "item_deleteOrder"}

\* The request in slot p repeats the request the slot served last, and that
\* one was rejected by the storage layer after its restock, on a line that
\* was not Cancelled when it began.
RetryOf(old, op, orderId, itemId, cartId, status) ==
  /\ old.pc = "done" /\ old.op = op
  /\ old.fault \in AfterRestock
  /\ ~old.wasCancelled
  /\ old.orderId = orderId /\ old.itemId = itemId /\ old.cartId = cartId
  /\ old.status = status

\* ------------------------------------------------------------ POST /add
\* Order.create({ cart: cartId, user, total }).
PlaceCreate(p, u, c) ==
  /\ CanStart(p)
  /\ orders' = [k \in DOMAIN orders \cup {nextOrderId} |->
                 IF k = nextOrderId THEN [cart |-> c, user |-> u] ELSE orders[k]]
  /\ nextOrderId' = nextOrderId + 1
  /\ placed' = [placed EXCEPT ![c] = @ + 1]
  /\ proc' = [proc EXCEPT ![p] =
       [Request("add") EXCEPT !.pc = "add_populate", !.user = u, !.cartId = c,
          !.orderId = nextOrderId,
          !.order = [id |-> nextOrderId, cart |-> c, user |-> u]]]
  /\ nStarted' = nStarted + 1
  /\ UNCHANGED <<skus, users, stock, carts, pendingBulk, credited>>

\* Mutant: the catch block undoes Order.create when the notification failed.
PlaceFinish_rollback(p) ==
  /\ proc[p].pc = "add_populate"
  /\ LET r == proc[p]
         cart == CartFindById(r.cartId)
     IN IF cart = NoCart
          THEN /\ proc' = [proc EXCEPT ![p] = sendErrorResponse(r)]
               /\ UNCHANGED orders
          ELSE \E sent \in BOOLEAN :
                 IF sent
                   THEN /\ proc' = [proc EXCEPT ![p] =
                             [sendSuccess(r) EXCEPT !.data = r.order.id,
                                !.mail = "sent"]]
                        /\ UNCHANGED orders
                   ELSE /\ proc' = [proc EXCEPT ![p] =
                             [sendErrorResponse(r) EXCEPT !.mail = "failed"]]
                        /\ orders' = Remove(orders, r.orderId)
  /\ UNCHANGED <<skus, users, stock, carts, nextOrderId, pendingBulk, credited, placed,
                 nStarted>>

\* order.populate('cart').execPopulate(), the summary built from
\* orderDoc.cart.products, mailgun.sendEmail and the response.  A cart that
\* is not found leaves orderDoc.cart null and the summary throws; a failed
\* notification rejects the awaited call.  Both end in the catch block.
PlaceFinish(p) ==
  /\ proc[p].pc = "add_populate"
  /\ LET r == proc[p]
         cart == CartFindById(r.cartId)
     IN IF cart = NoCart
          THEN proc' = [proc EXCEPT ![p] = sendErrorResponse(r)]
          ELSE \E sent \in BOOLEAN :
                 proc' = [proc EXCEPT ![p] =
                   IF sent
                     THEN [sendSuccess(r) EXCEPT !.data = r.order.id,
                             !.mail = "sent"]
                     ELSE [sendErrorResponse(r) EXCEPT !.mail = "failed"]]
  /\ Unchanged_db
  /\ UNCHANGED nStarted

\* ------------------------------------------------------- GET /:orderId
\* The handler has one awaited call (findOne with the cart populated) and
\* then only builds the response.
\* Mutant: the owner filter is left out of the query.
OrderFindFor_anyone(u, orderId) == OrderFindById(orderId)

\* Order.findOne({ _id: orderId }) for Admin, Order.findOne({ _id: orderId,
\* user }) for everyone else.
OrderFindFor(u, orderId) ==
  LET found == OrderFindById(orderId)
  IN IF Role(u) = ROLES.Admin
       THEN found
       ELSE IF found.user = u THEN found ELSE NoOrder

GetOrder(p, u, orderId) ==
  /\ CanStart(p)
  /\ LET orderDoc == OrderFindFor(u, orderId)
         cart == CartFindById(orderDoc.cart)
         r == [Request("get") EXCEPT !.user = u, !.orderId = orderId,
                 !.order = orderDoc, !.pc = "done"]
     IN proc' = [proc EXCEPT ![p] =
          IF orderDoc = NoOrder \/ cart = NoCart
            THEN [r EXCEPT !.res = 404]
            ELSE [r EXCEPT !.res = 200, !.data = orderDoc.id]]
  /\ nStarted' = nStarted + 1
  /\ Unchanged_db

\* ------------------------------------------------ increaseQuantity
\* increaseQuantity(products): one updateOne with $inc per line item, handed
\* to Product.bulkWrite.  The call is neither awaited nor returned: the
\* handler goes on while the batch is in flight.
increaseQuantity(r) ==
  pendingBulk \cup {[no |-> r.no, products |-> r.products]}

\* { $inc: { quantity: item.quantity } } on each line's product.
IncAll(q, lines) ==
  [pr \in DOMAIN q |->
     q[pr] + (LET RECURSIVE Sum(_)
                  Sum(k) == IF k = 0 THEN 0
                            ELSE Sum(k - 1) +
                                 (IF lines[k].product = pr
                                    THEN lines[k].quantity ELSE 0)
              IN Sum(Len(lines)))]

CreditAll(cr, lines) ==
  [i \in DOMAIN cr |->
     cr[i] + Cardinality({k \in DOMAIN lines : lines[k].id = i})]

\* The storage layer applies a batch that is in flight.
BulkWriteApply(b) ==
  /\ b \in pendingBulk
  /\ pendingBulk' = pendingBulk \ {b}
  /\ stock' = IncAll(stock, b.products)
  /\ credited' = CreditAll(credited, b.products)
  /\ UNCHANGED <<skus, users, carts, orders, nextOrderId, proc, nStarted, placed>>

\* ------------------------------------------- DELETE /cancel/:orderId
\* const order = await Order.findOne({ _id: orderId })
CancelFindOrder(p, u, orderId) ==
  /\ CanStart(p)
  /\ proc' = [proc EXCEPT ![p] =
       [Request("cancel") EXCEPT !.pc = "cancel_findCart", !.user = u,
          !.orderId = orderId, !.order = OrderFindById(orderId),
          !.before = Snapshot,
          !.retry = RetryOf(proc[p], "cancel", orderId, NoItem, NoCart,
                            "none")]]
  /\ nStarted' = nStarted + 1
  /\ Unchanged_db

\* const foundCart = await Cart.findOne({ _id: order.cart })
\* (order.cart throws when no order was found).
CancelFindCart(p) ==
  /\ proc[p].pc = "cancel_findCart"
  /\ LET r == proc[p]
         cart == CartFindById(r.order.cart)
     IN proc' = [proc EXCEPT ![p] =
          IF r.order = NoOrder
            THEN sendErrorResponse(r)
            ELSE [r EXCEPT !.pc = "cancel_deleteOrder", !.foundCart = cart,
                    !.products = ProductsOf(cart)]]
  /\ Unchanged_db
  /\ UNCHANGED nStarted

\* increaseQuantity(foundCart.products) (foundCart.products throws when no
\* cart was found), then await Order.deleteOne({ _id: orderId }).
CancelDeleteOrder(p) ==
  /\ proc[p].pc = "cancel_deleteOrder"
  /\ LET r == proc[p]
     IN IF r.foundCart = NoCart
          THEN /\ proc' = [proc EXCEPT ![p] = sendErrorResponse(r)]
               /\ UNCHANGED <<pendingBulk, orders>>
          ELSE /\ pendingBulk' = increaseQuantity(r)
               /\ orders' = Remove(orders, r.orderId)
               /\ proc' = [proc EXCEPT ![p].pc = "cancel_deleteCart"]
  /\ UNCHANGED <<skus, users, stock, carts, nextOrderId, nStarted, credited, placed>>

\* await Cart.deleteOne({ _id: order.cart }), then the success response.
CancelDeleteCart(p) ==
  /\ proc[p].pc = "cancel_deleteCart"
  /\ carts' = Remove(carts, proc[p].order.cart)
  /\ proc' = [proc EXCEPT ![p] = sendSuccess(@)]
  /\ UNCHANGED <<skus, users, stock, orders, nextOrderId, pendingBulk, nStarted, credited,
                 placed>>

\* --------------------------------------------- PUT /status/item/:itemId
\* Mutant: the order counts as cancelled as soon as one line is.
AllCancelled_any(lines) ==
  \E k \in DOMAIN lines : lines[k].status = CART_ITEM_STATUS.Cancelled

\* cart.products.length === items.length, items the Cancelled lines.
AllCancelled(lines) ==
  Cardinality({k \in DOMAIN lines :
                 lines[k].status = CART_ITEM_STATUS.Cancelled}) = Len(lines)

\* Mutant: the update sets the status of every line of the matched cart
\* ('products.$[].status').
SetStatus_all(cs, itemId, status) ==
  [c \in DOMAIN cs |->
     [k \in DOMAIN cs[c] |->
        IF \E j \in DOMAIN cs[c] : cs[c][j].id = itemId
          THEN [cs[c][k] EXCEPT !.status = status] ELSE cs[c][k]]]

\* { 'products.$.status': status } on the line matched by 'products._id'.
SetStatus(cs, itemId, status) ==
  [c \in DOMAIN cs |->
     [k \in DOMAIN cs[c] |->
        IF cs[c][k].id = itemId
          THEN [cs[c][k] EXCEPT !.status = status] ELSE cs[c][k]]]

\* The line with _id itemId among lines (foundCart.products.find).
FindLine(lines, itemId) ==
  CHOOSE l \in Range(lines) : l.id = itemId

\* The cart and order a request names are those of the line it names.
Consistent(itemId, orderId, cartId) ==
  /\ CartFindByItem(itemId) = cartId
  /\ orderId \in DOMAIN orders
  /\ orders[orderId].cart = cartId

\* const status = req.body.status || CART_ITEM_STATUS.Cancelled
StatusParam(bodyStatus) ==
  IF bodyStatus = "none" THEN CART_ITEM_STATUS.Cancelled ELSE bodyStatus

\* const foundCart = await Cart.findOne({ 'products._id': itemId })
ItemFindCart(p, itemId, orderId, cartId, bodyStatus) ==
  /\ CanStart(p)
  /\ LET cart == CartFindByItem(itemId)
         lines == ProductsOf(cart)
     IN proc' = [proc EXCEPT ![p] =
          [Request("item") EXCEPT !.pc = "item_updateStatus",
             !.itemId = itemId, !.orderId = orderId, !.cartId = cartId,
             !.status = StatusParam(bodyStatus),
             !.foundCart = cart, !.products = lines,
             !.own = Consistent(itemId, orderId, cartId),
             !.before = Snapshot,
             !.retry = RetryOf(proc[p], "item", orderId, itemId, cartId,
                               StatusParam(bodyStatus)),
             !.wasCancelled =
               /\ cart # NoCart
               /\ FindLine(lines, itemId).status = CART_ITEM_STATUS.Cancelled]]
  /\ nStarted' = nStarted + 1
  /\ Unchanged_db

\* foundCart.products.find(...) (throws when no cart was found), then
\* await Cart.updateOne({ 'products._id': itemId }, { 'products.$.status': status });
\* a status other than Cancelled goes straight to the response.
ItemUpdateStatus(p) ==
  /\ proc[p].pc = "item_updateStatus"
  /\ LET r == proc[p]
     IN IF r.foundCart = NoCart
          THEN /\ proc' = [proc EXCEPT ![p] = sendErrorResponse(r)]
               /\ UNCHANGED carts
          ELSE /\ carts' = SetStatus(carts, r.itemId, r.status)
               /\ proc' = [proc EXCEPT ![p] =
                    IF r.status = CART_ITEM_STATUS.Cancelled
                      THEN [r EXCEPT !.pc = "item_incQuantity"]
                      ELSE sendSuccess(r)]
  /\ UNCHANGED <<skus, users, stock, orders, nextOrderId, pendingBulk, nStarted, credited,
                 placed>>

\* Mutant: the new quantity is computed from the quantity read when the
\* request began and written back with $set.
ItemIncQuantity_readWrite(p) ==
  /\ proc[p].pc = "item_incQuantity"
  /\ LET foundCartProduct == FindLine(proc[p].products, proc[p].itemId)
     IN /\ stock' = [stock EXCEPT ![foundCartProduct.product] =
                       proc[p].before.stock[foundCartProduct.product]
                         + foundCartProduct.quantity]
        /\ credited' = [credited EXCEPT ![foundCartProduct.id] = @ + 1]
  /\ proc' = [proc EXCEPT ![p].pc = "item_findCart"]
  /\ UNCHANGED <<skus, users, carts, orders, nextOrderId, pendingBulk, nStarted, placed>>

\* await Product.updateOne({ _id: foundCartProduct.product },
\*                         { $inc: { quantity: foundCartProduct.quantity } })
\* $inc is applied by the storage layer to the document as it is stored.
ItemIncQuantity(p) ==
  /\ proc[p].pc = "item_incQuantity"
  /\ LET foundCartProduct == FindLine(proc[p].products, proc[p].itemId)
     IN /\ stock' = [stock EXCEPT ![foundCartProduct.product] =
                       @ + foundCartProduct.quantity]
        /\ credited' = [credited EXCEPT ![foundCartProduct.id] = @ + 1]
  /\ proc' = [proc EXCEPT ![p].pc = "item_findCart"]
  /\ UNCHANGED <<skus, users, carts, orders, nextOrderId, pendingBulk, nStarted, placed>>

\* const cart = await Cart.findOne({ _id: cartId }); foundCart is not read
\* again, so the slot's foundCart and products hold cart from here on.
ItemReadCart(p) ==
  /\ proc[p].pc = "item_findCart"
  /\ LET cart == CartFindById(proc[p].cartId)
     IN proc' = [proc EXCEPT ![p] =
          [@ EXCEPT !.pc = "item_deleteOrder", !.foundCart = cart,
             !.products = ProductsOf(cart)]]
  /\ Unchanged_db
  /\ UNCHANGED nStarted

\* cart.products.filter(...) (throws when no cart was found); when every
\* line is Cancelled, await Order.deleteOne({ _id: orderId }); otherwise the
\* 'Item has been cancelled' response.
ItemDeleteOrder(p) ==
  /\ proc[p].pc = "item_deleteOrder"
  /\ LET r == proc[p]
     IN IF r.foundCart = NoCart
          THEN /\ proc' = [proc EXCEPT ![p] = sendErrorResponse(r)]
               /\ UNCHANGED orders
          ELSE IF AllCancelled(r.products)
            THEN /\ orders' = Remove(orders, r.orderId)
                 /\ proc' = [proc EXCEPT ![p].pc = "item_deleteCart"]
            ELSE /\ proc' = [proc EXCEPT ![p] = sendSuccess(r)]
                 /\ UNCHANGED orders
  /\ UNCHANGED <<skus, users, stock, carts, nextOrderId, pendingBulk, nStarted, credited,
                 placed>>

\* await Cart.deleteOne({ _id: cartId }), then the orderCancelled response.
ItemDeleteCart(p) ==
  /\ proc[p].pc = "item_deleteCart"
  /\ carts' = Remove(carts, proc[p].cartId)
  /\ proc' = [proc EXCEPT ![p] =
       [sendSuccess(@) EXCEPT !.orderCancelled = TRUE]]
  /\ UNCHANGED <<skus, users, stock, orders, nextOrderId, pendingBulk, nStarted, credited,
                 placed>>

\* ------------------------------------------------------ auth routes
\* res.status(status).json(body): the first call sends the response; a
\* later call throws (the headers are sent).  ok tells whether it returned.
Send(r, status, body) ==
  IF r.res = 0
    THEN [ok |-> TRUE,
          r |-> [r EXCEPT !.res = status, !.token = (body = "token"),
                   !.error = (body = "error"), !.success = (body = "token")]]
    ELSE [ok |-> FALSE, r |-> r]

\* handleErrors(res, status, message)
handleErrors(r, status) == Send(r, status, "error")

\* The catch block of an auth route: handleErrors(res, 400, ...); when that
\* throws too, the handler's promise rejects.
AuthCatch(r) ==
  LET sent == handleErrors(r, 400)
  IN [sent.r EXCEPT !.pc = "done", !.unhandled = ~sent.ok,
        !.foundUser = NoDoc, !.isMatch = FALSE]

\* The checks of validateUserInput that fail for a body, in order: each
\* calls handleErrors and none returns.
FailedChecks(email, password, hasName) ==
  (IF email = "" THEN 1 ELSE 0) + (IF password = "" THEN 1 ELSE 0)
    + (IF ~hasName THEN 1 ELSE 0)

\* validateUserInput(res, body): the first failed check sends a 400, a
\* second one throws out of the function.
validateUserInput(r, email, password, hasName) ==
  LET n == FailedChecks(email, password, hasName)
  IN IF n = 0 THEN [ok |-> TRUE, r |-> r]
     ELSE [ok |-> n = 1, r |-> handleErrors(r, 400).r]

\* Mutant: the lookup finds nobody.
UserFindOne_none(email) == NoDoc

\* User.findOne({ email }): the first document with the email, or null.
UserFindOne(email) ==
  IF \E k \in DOMAIN users : users[k].email = email
    THEN CHOOSE k \in DOMAIN users :
           /\ users[k].email = email
           /\ \A j \in DOMAIN users : users[j].email = email => k <= j
    ELSE NoDoc

\* POST /login: validateUserInput(res, { email, password }) (the body
\* passed on has no firstName and no lastName), then authenticateUser up
\* to await User.findOne({ email }).
LoginFindUser(p, email, password) ==
  /\ CanStart(p)
  /\ LET r == [Request("login") EXCEPT !.email = email,
                 !.password = password]
         v == validateUserInput(r, email, password, FALSE)
     IN proc' = [proc EXCEPT ![p] =
          IF ~v.ok THEN AuthCatch(v.r)
          ELSE [v.r EXCEPT !.pc = "login_compare",
                  !.foundUser = UserFindOne(email)]]
  /\ nStarted' = nStarted + 1
  /\ Unchanged_db

\* authenticateUser: if (!user) and the provider test call handleErrors(res,
\* ...) where no res is in scope, which throws a ReferenceError into the
\* route's catch block; otherwise await bcrypt.compare(password, user.password).
LoginCompare(p) ==
  /\ proc[p].pc = "login_compare"
  /\ LET r == proc[p]
     IN proc' = [proc EXCEPT ![p] =
          IF r.foundUser = NoDoc
               \/ users[r.foundUser].provider # EMAIL_PROVIDER.Email
            THEN AuthCatch(r)
            ELSE [r EXCEPT !.pc = "login_respond",
                    !.isMatch = Compare(r.password,
                                        users[r.foundUser].password)]]
  /\ Unchanged_db
  /\ UNCHANGED nStarted

\* authenticateUser: if (!isMatch) calls handleErrors(res, ...) with no res
\* in scope; otherwise the route signs the token and calls
\* res.status(200).json({ success, token, user }).
LoginRespond(p) ==
  /\ proc[p].pc = "login_respond"
  /\ LET r == proc[p]
         sent == Send(r, 200, "token")
     IN proc' = [proc EXCEPT ![p] =
          IF ~r.isMatch \/ ~sent.ok
            THEN AuthCatch(r)
            ELSE [sent.r EXCEPT !.pc = "done", !.foundUser = NoDoc,
                    !.isMatch = FALSE]]
  /\ Unchanged_db
  /\ UNCHANGED nStarted

\* The auth routes leave the order and product collections alone.
Unchanged_shop == UNCHANGED <<stock, carts, orders, nextOrderId, pendingBulk,
                              credited, placed, skus>>

\* POST /register: validateUserInput(res, body), await User.findOne({ email })
\* and the existingUser test, whose handleErrors is not followed by a
\* return.
RegisterFindUser(p, email, password, hasName, isSubscribed) ==
  /\ CanStart(p)
  /\ LET r == [Request("register") EXCEPT !.email = email,
                 !.password = password, !.hasName = hasName,
                 !.isSubscribed = isSubscribed,
                 !.existed = \E k \in DOMAIN users : users[k].email = email]
         v == validateUserInput(r, email, password, hasName)
         existingUser == UserFindOne(email)
         h == handleErrors(v.r, 400)
         go == [pc |-> IF isSubscribed THEN "register_subscribe"
                                       ELSE "register_save",
                foundUser |-> existingUser]
     IN proc' = [proc EXCEPT ![p] =
          IF ~v.ok THEN AuthCatch(v.r)
          ELSE IF existingUser = NoDoc
            THEN [v.r EXCEPT !.pc = go.pc, !.foundUser = go.foundUser]
          ELSE IF ~h.ok THEN AuthCatch(v.r)
          ELSE [h.r EXCEPT !.pc = go.pc, !.foundUser = go.foundUser]]
  /\ nStarted' = nStarted + 1
  /\ Unchanged_db

\* await mailchimp.subscribeToNewsletter(email), which can reject.
RegisterSubscribe(p) ==
  /\ proc[p].pc = "register_subscribe"
  /\ \E subscribed \in BOOLEAN :
       proc' = [proc EXCEPT ![p] =
         IF subscribed THEN [@ EXCEPT !.pc = "register_save"]
                       ELSE [AuthCatch(@) EXCEPT !.mail = "failed"]]
  /\ Unchanged_db
  /\ UNCHANGED nStarted

\* new User({ email, password, firstName, lastName }), bcrypt.genSalt and
\* bcrypt.hash(user.password, salt) (which rejects when there is no
\* password), then await user.save(): the document is inserted.
RegisterSave(p) ==
  /\ proc[p].pc = "register_save"
  /\ LET r == proc[p]
     IN IF r.password = ""
          THEN /\ proc' = [proc EXCEPT ![p] = AuthCatch(r)]
               /\ UNCHANGED users
          ELSE /\ users' = Append(users,
                      [email |-> r.email, password |-> Hash(r.password),
                       provider |-> EMAIL_PROVIDER.Email,
                       resetPasswordToken |-> NoToken])
               /\ proc' = [proc EXCEPT ![p].pc = "register_mail"]
  /\ Unchanged_shop
  /\ UNCHANGED nStarted

\* await mailgun.sendEmail(..., 'signup', ...), which can reject, then
\* jwt.sign and res.status(200).json({ success, subscribed, token, user }).
RegisterMail(p) ==
  /\ proc[p].pc = "register_mail"
  /\ LET r == proc[p]
         sent200 == Send(r, 200, "token")
     IN \E sent \in BOOLEAN :
          proc' = [proc EXCEPT ![p] =
            IF ~sent THEN [AuthCatch(r) EXCEPT !.mail = "failed"]
            ELSE IF ~sent200.ok THEN [AuthCatch(r) EXCEPT !.mail = "sent"]
            ELSE [sent200.r EXCEPT !.pc = "done", !.foundUser = NoDoc,
                    !.mail = "sent"]]
  /\ Unchanged_db
  /\ UNCHANGED nStarted

\* POST /forgot: validateUserInput(res, { email }) with no password and
\* no names in the object throws at its second failed check, so the catch
\* block ends the handler.  Past it: await User.findOne({ email }), the
\* token stored on the user by existingUser.save().
Forgot(p, email, newToken) ==
  /\ CanStart(p)
  /\ LET r == [Request("forgot") EXCEPT !.email = email]
         v == validateUserInput(r, email, "", FALSE)
         existingUser == UserFindOne(email)
     IN IF ~v.ok \/ existingUser = NoDoc
          THEN /\ proc' = [proc EXCEPT ![p] = AuthCatch(v.r)]
               /\ UNCHANGED users
          ELSE /\ users' = [users EXCEPT
                              ![existingUser].resetPasswordToken = newToken]
               /\ proc' = [proc EXCEPT ![p] =
                    [Send(v.r, 200, "message").r EXCEPT !.pc = "done"]]
  /\ nStarted' = nStarted + 1
  /\ Unchanged_shop

\* User.findOne({ resetPasswordToken: token, resetPasswordExpires: { $gt:
\* Date.now() } }); unexpired tells whether the stored expiry is still ahead.
ResetFindOne(token, unexpired) ==
  IF unexpired /\ \E k \in DOMAIN users : users[k].resetPasswordToken = token
    THEN CHOOSE k \in DOMAIN users :
           /\ users[k].resetPasswordToken = token
           /\ \A j \in DOMAIN users :
                users[j].resetPasswordToken = token => k <= j
    ELSE NoDoc

\* Mutant: the password of the first user is set whatever the request
\* carries.
Reset_unchecked(p, token, password, unexpired) ==
  /\ CanStart(p)
  /\ users' = [users EXCEPT ![1].password = Hash(password)]
  /\ proc' = [proc EXCEPT ![p] =
       [Send([Request("reset") EXCEPT !.resetToken = token,
                !.password = password], 200, "message").r
          EXCEPT !.pc = "done"]]
  /\ nStarted' = nStarted + 1
  /\ Unchanged_shop

\* POST /reset/:token: validateUserInput(res, { password }) with no email
\* and no names in the object throws at its second failed check, so the
\* catch block ends the handler.  Past it: the lookup by token and expiry,
\* the new hash stored and the token cleared by resetUser.save().
Reset(p, token, password, unexpired) ==
  /\ CanStart(p)
  /\ LET r == [Request("reset") EXCEPT !.resetToken = token,
                 !.password = password]
         v == validateUserInput(r, "", password, FALSE)
         resetUser == ResetFindOne(token, unexpired)
     IN IF ~v.ok \/ resetUser = NoDoc
          THEN /\ proc' = [proc EXCEPT ![p] = AuthCatch(v.r)]
               /\ UNCHANGED users
          ELSE /\ users' = [users EXCEPT
                              ![resetUser].password = Hash(password),
                              ![resetUser].resetPasswordToken = NoToken]
               /\ proc' = [proc EXCEPT ![p] =
                    [Send(v.r, 200, "message").r EXCEPT !.pc = "done"]]
  /\ nStarted' = nStarted + 1
  /\ Unchanged_shop

\* ------------------------------------------------- rejected calls
\* An awaited call of DELETE /cancel/:orderId rejects: the code up to the
\* call has run, the call changes nothing, and the catch block answers.
CancelCallFails(p) ==
  /\ proc[p].pc \in {"cancel_findCart", "cancel_deleteOrder",
                      "cancel_deleteCart"}
  /\ LET r == proc[p]
     IN /\ r.pc = "cancel_findCart" => r.order # NoOrder
        /\ r.pc = "cancel_deleteOrder" => r.foundCart # NoCart
        /\ pendingBulk' = IF r.pc = "cancel_deleteOrder"
                            THEN increaseQuantity(r) ELSE pendingBulk
        /\ proc' = [proc EXCEPT ![p] =
             [sendErrorResponse(r) EXCEPT !.fault = r.pc]]
  /\ UNCHANGED <<skus, users, stock, carts, orders, nextOrderId, nStarted, credited,
                 placed>>

\* An awaited call of PUT /status/item/:itemId rejects.
ItemCallFails(p) ==
  /\ proc[p].pc \in {"item_updateStatus", "item_incQuantity",
                      "item_findCart", "item_deleteOrder", "item_deleteCart"}
  /\ LET r == proc[p]
     IN /\ r.pc = "item_updateStatus" => r.foundCart # NoCart
        /\ r.pc = "item_deleteOrder" =>
             r.foundCart # NoCart /\ AllCancelled(r.products)
        /\ proc' = [proc EXCEPT ![p] =
             [sendErrorResponse(r) EXCEPT !.fault = r.pc]]
  /\ Unchanged_db
  /\ UNCHANGED nStarted

\* The batch handed to Product.bulkWrite rejects: nothing awaits the
\* promise, so no handler sees it.
BulkWriteFails(b) ==
  /\ b \in pendingBulk
  /\ pendingBulk' = pendingBulk \ {b}
  /\ UNCHANGED <<skus, users, stock, carts, orders, nextOrderId, proc, nStarted, credited,
                 placed>>

\* ------------------------------------------------------ GET /search
\* The names the module binds at its top level.  JavaScript names are
\* case sensitive: require('mongoose') is bound to Mongoose.
ModuleBindings ==
  {"express", "router", "Mongoose", "Order", "Cart", "Product", "auth",
   "mailgun", "store", "ROLES", "CART_ITEM_STATUS", "sendErrorResponse",
   "increaseQuantity"}

\* mongoose.Types.ObjectId.isValid(search)
isValid(search) == search.valid

\* Order.find(query).populate('cart') filtered on order.cart, query being
\* { _id: search } for Admin and { _id: search, user } for everyone else.
SearchFind(u, search) ==
  LET orderDoc == OrderFindFor(u, search.id)
  IN IF orderDoc # NoOrder /\ CartFindById(orderDoc.cart) # NoCart
       THEN <<orderDoc.id>> ELSE << >>

\* What search strings a request can carry: one that is no ObjectId, and
\* the ObjectId of each order id a request can name.
SearchParams ==
  {NoSearch} \cup {[valid |-> TRUE, id |-> o] : o \in OrderIdParams}

\* The handler reads the name mongoose before its first awaited call; a
\* name that is not bound throws a ReferenceError, which the catch block
\* answers.
SearchOrders(p, u, search) ==
  /\ CanStart(p)
  /\ LET r == [Request("search") EXCEPT !.user = u, !.search = search]
     IN proc' = [proc EXCEPT ![p] =
          IF "mongoose" \notin ModuleBindings
            THEN sendErrorResponse(r)
            ELSE IF ~isValid(search)
              THEN sendSuccess(r)
              ELSE [sendSuccess(r) EXCEPT !.list = SearchFind(u, search)]]
  /\ nStarted' = nStarted + 1
  /\ Unchanged_db

\* ------------------------------------------------- GET / and GET /me
\* The orders a query matches: all of them for {}, the user's for { user }.
Matching(u) ==
  {o \in DOMAIN orders : u = NoUser \/ orders[o].user = u}

\* sort('-created'): newest first.  created defaults to the time of
\* Order.create, so it grows with the order's _id in the model.
RECURSIVE SortDesc(_)
SortDesc(S) ==
  IF S = {} THEN << >>
  ELSE LET newest == CHOOSE o \in S : \A x \in S : x <= o
       IN <<newest>> \o SortDesc(S \ {newest})

\* Mutant: the first page is skipped.
SkipOf_page(page, limit) == page * limit

\* skip((page - 1) * limit)
SkipOf(page, limit) == (page - 1) * limit

\* .limit(limit * 1).skip(...): limit documents after the skipped ones.
SkipLimit(sorted, skip, limit) ==
  SubSeq(sorted, skip + 1,
         IF skip + limit < Len(sorted) THEN skip + limit ELSE Len(sorted))

\* Math.ceil(count / limit) for a positive limit.
Ceil(count, limit) == (count + limit - 1) \div limit

\* store.formatOrders(ordersDoc): every order of the page, annotated with
\* its tax totals; the model keeps the _ids.
formatOrders(ordersDoc) == ordersDoc

\* The response of both list handlers.
ListRespond(r, count) ==
  [sendSuccess(r) EXCEPT !.list = formatOrders(r.ordersDoc),
     !.ordersDoc = << >>, !.count = count,
     !.totalPages = Ceil(count, r.limit), !.currentPage = r.page]

\* GET /: const ordersDoc = await Order.find().sort().limit().skip().exec()
ListFind(p, u, page, limit) ==
  /\ CanStart(p)
  /\ proc' = [proc EXCEPT ![p] =
       [Request("list") EXCEPT !.pc = "list_count", !.user = u,
          !.page = page, !.limit = limit,
          !.ordersDoc = SkipLimit(SortDesc(Matching(NoUser)),
                                  SkipOf(page, limit), limit)]]
  /\ nStarted' = nStarted + 1
  /\ Unchanged_db

\* GET /: const count = await Order.countDocuments(), then the response.
ListCount(p) ==
  /\ proc[p].pc = "list_count"
  /\ proc' = [proc EXCEPT ![p] =
       ListRespond(@, Cardinality(Matching(NoUser)))]
  /\ Unchanged_db
  /\ UNCHANGED nStarted

\* GET /me: const ordersDoc = await Order.find({ user })...exec()
MeFind(p, u, page, limit) ==
  /\ CanStart(p)
  /\ proc' = [proc EXCEPT ![p] =
       [Request("me") EXCEPT !.pc = "me_count", !.user = u,
          !.page = page, !.limit = limit,
          !.ordersDoc = SkipLimit(SortDesc(Matching(u)),
                                  SkipOf(page, limit), limit)]]
  /\ nStarted' = nStarted + 1
  /\ Unchanged_db

\* GET /me: const count = await Order.countDocuments({ user }), then the
\* response.
MeCount(p) ==
  /\ proc[p].pc = "me_count"
  /\ proc' = [proc EXCEPT ![p] =
       ListRespond(@, Cardinality(Matching(proc[p].user)))]
  /\ Unchanged_db
  /\ UNCHANGED nStarted

\* req.body.status as sent: absent, or one of the statuses.
BodyStatuses == {"none", CART_ITEM_STATUS.Processing}

\* ---------------------------------------------------- product routes
\* Product.findOne(filter) without a sort: any one of the documents the
\* filter matches, NoProduct when it matches none.
ProductFindOne(matching) ==
  IF matching = {} THEN {NoProduct} ELSE matching

\* The _id the next saved product gets.
NextProductId ==
  NewProducts[Cardinality(DOMAIN stock \ Products) + 1]

\* POST /product/add: the required-field test, then
\* await Product.findOne({ sku }) and the test of its result.  The name,
\* the description and the price are present; !quantity rejects 0.
ProductAddFindOne(p, sku, quantity) ==
  /\ CanStart(p)
  /\ Cardinality(DOMAIN stock \ Products) < Len(NewProducts)
  /\ nStarted' = nStarted + 1
  /\ \E foundProduct \in
         ProductFindOne({d \in DOMAIN skus : skus[d].sku = sku}) :
       proc' = [proc EXCEPT ![p] =
         LET r == [Request("padd") EXCEPT !.sku = sku, !.quantity = quantity]
         IN  IF sku = "" \/ quantity = 0
               THEN sendErrorResponse(r)
               ELSE IF foundProduct # NoProduct
                 THEN sendErrorResponse(r)
                 ELSE [r EXCEPT !.pc = "padd_upload"]]
  /\ Unchanged_db

\* const { imageUrl, imageKey } = await s3Upload(image).
ProductAddUpload(p) ==
  /\ proc[p].pc = "padd_upload"
  /\ proc' = [proc EXCEPT ![p].pc = "padd_save"]
  /\ Unchanged_db
  /\ UNCHANGED nStarted

\* new Product({ sku, ..., quantity, ... }), await product.save() and the
\* response.  The slug of the new document is generated for it.
ProductAddSave(p) ==
  /\ proc[p].pc = "padd_save"
  /\ LET id == NextProductId
     IN  /\ stock' = [d \in DOMAIN stock \cup {id} |->
                        IF d = id THEN proc[p].quantity ELSE stock[d]]
         /\ skus' = [d \in DOMAIN skus \cup {id} |->
                       IF d = id THEN [sku |-> proc[p].sku, slug |-> id]
                                 ELSE skus[d]]
         /\ proc' = [proc EXCEPT ![p] =
                       [sendSuccess(@) EXCEPT !.productId = id]]
  /\ UNCHANGED <<users, carts, orders, nextOrderId, pendingBulk, nStarted,
                 credited, placed>>

\* PUT /product/:id: await Product.findOne({ $or: [{ slug }, { sku }] }) and
\* the test of its result.  The body carries a sku and a quantity, and the
\* slug of the product as the client loaded it, or no slug.
ProductUpdateFindOne(p, productId, sku, slug, quantity) ==
  /\ CanStart(p)
  /\ productId \in DOMAIN skus
  /\ sku # ""
  /\ slug \in {skus[productId].slug, NoSlug}
  /\ nStarted' = nStarted + 1
  /\ \E foundProduct \in
         ProductFindOne({d \in DOMAIN skus :
                           skus[d].slug = slug \/ skus[d].sku = sku}) :
       proc' = [proc EXCEPT ![p] =
         LET r == [Request("pupdate") EXCEPT !.productId = productId,
                     !.sku = sku, !.slug = slug, !.quantity = quantity]
         IN  IF foundProduct # NoProduct /\ foundProduct # productId
               THEN sendErrorResponse(r)
               ELSE [r EXCEPT !.pc = "pupdate_write"]]
  /\ Unchanged_db

\* await Product.findOneAndUpdate({ _id: productId }, update, { new: true })
\* and the response: the fields of the body replace the document's.
ProductUpdateWrite(p) ==
  /\ proc[p].pc = "pupdate_write"
  /\ LET id == proc[p].productId
     IN  /\ stock' = [stock EXCEPT ![id] = proc[p].quantity]
         /\ skus' = [skus EXCEPT ![id] =
                       [sku |-> proc[p].sku,
                        slug |-> IF proc[p].slug = NoSlug THEN @.slug
                                                          ELSE proc[p].slug]]
  /\ proc' = [proc EXCEPT ![p] = sendSuccess(@)]
  /\ UNCHANGED <<users, carts, orders, nextOrderId, pendingBulk, nStarted,
                 credited, placed>>

Next ==
  \/ \E p \in Procs, u \in Users, o \in OrderIdParams : CancelFindOrder(p, u, o)
  \/ \E p \in Procs : CancelFindCart(p)
  \/ \E p \in Procs : CancelDeleteOrder(p)
  \/ \E p \in Procs : CancelDeleteCart(p)
  \/ \E b \in pendingBulk : BulkWriteApply(b)
  \/ \E p \in Procs, i \in Items, o \in OrderIdParams, c \in CartIds,
        st \in BodyStatuses : ItemFindCart(p, i, o, c, st)
  \/ \E p \in Procs : ItemUpdateStatus(p)
  \/ \E p \in Procs : ItemIncQuantity(p)
  \/ \E p \in Procs : ItemReadCart(p)
  \/ \E p \in Procs : ItemDeleteOrder(p)
  \/ \E p \in Procs : ItemDeleteCart(p)
  \/ \E p \in Procs, u \in Buyers, c \in CartIds : PlaceCreate(p, u, c)
  \/ \E p \in Procs : PlaceFinish(p)
  \/ \E p \in Procs, u \in Users, o \in OrderIdParams : GetOrder(p, u, o)

\* No request is in flight.
Quiet == \A q \in Procs : Idle(q)

\* One request at a time: a request starts only when no other is in flight.
SeqNext ==
  \/ \E p \in Procs, u \in Buyers, c \in CartIds :
       Quiet /\ PlaceCreate(p, u, c)
  \/ \E p \in Procs : PlaceFinish(p)
  \/ \E p \in Procs, u \in Users, o \in OrderIdParams :
       Quiet /\ GetOrder(p, u, o)
  \/ \E p \in Procs, u \in Users, o \in OrderIdParams :
       Quiet /\ CancelFindOrder(p, u, o)
  \/ \E p \in Procs : CancelFindCart(p)
  \/ \E p \in Procs : CancelDeleteOrder(p)
  \/ \E p \in Procs : CancelDeleteCart(p)
  \/ \E b \in pendingBulk : BulkWriteApply(b)
  \/ \E p \in Procs, i \in Items, o \in OrderIdParams, c \in CartIds,
        st \in BodyStatuses : Quiet /\ ItemFindCart(p, i, o, c, st)
  \/ \E p \in Procs : ItemUpdateStatus(p)
  \/ \E p \in Procs : ItemIncQuantity(p)
  \/ \E p \in Procs : ItemReadCart(p)
  \/ \E p \in Procs : ItemDeleteOrder(p)
  \/ \E p \in Procs : ItemDeleteCart(p)

\* Requests served one after the other (batches in flight still apply at
\* any time).
Spec == Init /\ [][SeqNext]_vars

\* Requests interleaved at their persistence calls.
ConcSpec == Init /\ [][Next]_vars

\* Requests served one after the other, over a storage layer whose calls
\* to the cancel handlers can reject.
FaultNext ==
  \/ SeqNext
  \/ \E p \in Procs : CancelCallFails(p)
  \/ \E p \in Procs : ItemCallFails(p)
  \/ \E b \in pendingBulk : BulkWriteFails(b)

FaultSpec == Init /\ [][FaultNext]_vars

\* Cancellations in flight together.  The behaviours start where u1 has
\* ordered cart c1 and admin has ordered cart c2 (two Place requests served
\* from Init); every line is cancelled through the order and the cart it
\* belongs to, or with its whole order.
RestockInit ==
  /\ stock = InitStock
  /\ carts = InitCarts
  /\ orders = [o \in {1, 2} |->
                IF o = 1 THEN [cart |-> "c1", user |-> "u1"]
                         ELSE [cart |-> "c2", user |-> "admin"]]
  /\ nextOrderId = 3
  /\ pendingBulk = {}
  /\ proc = [p \in Procs |-> Fresh]
  /\ nStarted = 0
  /\ credited = [i \in Items |-> 0]
  /\ placed = [c \in CartIds |-> IF c \in {"c1", "c2"} THEN 1 ELSE 0]
  /\ users = InitUsers
  /\ skus = InitSkus

RestockNext ==
  \/ \E p \in Procs, o \in DOMAIN orders : CancelFindOrder(p, "admin", o)
  \/ \E p \in Procs : CancelFindCart(p)
  \/ \E p \in Procs : CancelDeleteOrder(p)
  \/ \E p \in Procs : CancelDeleteCart(p)
  \/ \E b \in pendingBulk : BulkWriteApply(b)
  \/ \E p \in Procs, i \in Items, o \in DOMAIN orders :
       /\ CartFindByItem(i) = orders[o].cart
       /\ ItemFindCart(p, i, o, orders[o].cart, "none")
  \/ \E p \in Procs : ItemUpdateStatus(p)
  \/ \E p \in Procs : ItemIncQuantity(p)
  \/ \E p \in Procs : ItemReadCart(p)
  \/ \E p \in Procs : ItemDeleteOrder(p)
  \/ \E p \in Procs : ItemDeleteCart(p)

RestockSpec == RestockInit /\ [][RestockNext]_vars

\* The auth routes, their requests interleaved at the awaited calls.
AuthNext ==
  \/ \E p \in Procs, e \in Emails, pw \in Passwords : LoginFindUser(p, e, pw)
  \/ \E p \in Procs : LoginCompare(p)
  \/ \E p \in Procs : LoginRespond(p)

AuthSpec == Init /\ [][AuthNext]_vars

\* Email addresses a register request carries.
RegisterEmails == Emails \ {""}

\* The account routes, one request at a time.
AccountNext ==
  \/ \E p \in Procs, e \in Emails, pw \in Passwords :
       Quiet /\ LoginFindUser(p, e, pw)
  \/ \E p \in Procs : LoginCompare(p)
  \/ \E p \in Procs : LoginRespond(p)
  \/ \E p \in Procs, e \in RegisterEmails, pw \in Passwords,
        hasName \in BOOLEAN, isSubscribed \in BOOLEAN :
       Quiet /\ RegisterFindUser(p, e, pw, hasName, isSubscribed)
  \/ \E p \in Procs : RegisterSubscribe(p)
  \/ \E p \in Procs : RegisterSave(p)
  \/ \E p \in Procs : RegisterMail(p)
  \/ \E p \in Procs, e \in Emails, t \in Tokens :
       Quiet /\ Forgot(p, e, t)
  \/ \E p \in Procs, t \in Tokens, pw \in Passwords, unexpired \in BOOLEAN :
       Quiet /\ Reset(p, t, pw, unexpired)

AccountSpec == Init /\ [][AccountNext]_vars

\* The read side: orders are placed, cancelled and queried, one request at
\* a time.
\* The product routes of merchants and admins, their requests in flight
\* together.
ProductNext ==
  \/ \E p \in Procs, sku \in Skus, q \in Quantities :
       ProductAddFindOne(p, sku, q)
  \/ \E p \in Procs : ProductAddUpload(p)
  \/ \E p \in Procs : ProductAddSave(p)
  \/ \E p \in Procs, d \in DOMAIN skus, sku \in Skus, q \in Quantities :
       \E slug \in {skus[d].slug, NoSlug} :
         ProductUpdateFindOne(p, d, sku, slug, q)
  \/ \E p \in Procs : ProductUpdateWrite(p)

ProductSpec == Init /\ [][ProductNext]_vars

\* The order routes and the product routes, one request at a time: the
\* quantity of a product is written by the cancellations' restock and by
\* the product add and update.
InventoryNext ==
  \/ SeqNext
  \/ \E p \in Procs, sku \in Skus, q \in Quantities :
       Quiet /\ ProductAddFindOne(p, sku, q)
  \/ \E p \in Procs : ProductAddUpload(p)
  \/ \E p \in Procs : ProductAddSave(p)
  \/ \E p \in Procs, d \in DOMAIN skus, sku \in Skus, q \in Quantities :
       \E slug \in {skus[d].slug, NoSlug} :
         Quiet /\ ProductUpdateFindOne(p, d, sku, slug, q)
  \/ \E p \in Procs : ProductUpdateWrite(p)

InventorySpec == Init /\ [][InventoryNext]_vars

QueryNext ==
  \/ \E p \in Procs, u \in Buyers, c \in CartIds :
       Quiet /\ PlaceCreate(p, u, c)
  \/ \E p \in Procs : PlaceFinish(p)
  \/ \E p \in Procs, u \in Users, s \in SearchParams :
       Quiet /\ SearchOrders(p, u, s)
  \/ \E p \in Procs, u \in Users, page \in 1..MaxPage, limit \in 1..MaxLimit :
       Quiet /\ ListFind(p, u, page, limit)
  \/ \E p \in Procs : ListCount(p)
  \/ \E p \in Procs, u \in Users, page \in 1..MaxPage, limit \in 1..MaxLimit :
       Quiet /\ MeFind(p, u, page, limit)
  \/ \E p \in Procs : MeCount(p)
  \/ \E p \in Procs, u \in Users, o \in OrderIdParams :
       Quiet /\ CancelFindOrder(p, u, o)
  \/ \E p \in Procs : CancelFindCart(p)
  \/ \E p \in Procs : CancelDeleteOrder(p)
  \/ \E p \in Procs : CancelDeleteCart(p)
  \/ \E b \in pendingBulk : BulkWriteApply(b)

QuerySpec == Init /\ [][QueryNext]_vars

\* ------------------------------------------------------------- claims
Cancelled == CART_ITEM_STATUS.Cancelled

\* Slot p takes a step.
Steps(p) == proc'[p] # proc[p]

\* Slot p sends its response in this step.
Responds(p) == Steps(p) /\ proc'[p].pc = "done"

\* The cart a line was built into.
CartOfItem(i) ==
  CHOOSE c \in DOMAIN InitCarts : \E l \in Range(InitCarts[c]) : l.id = i

\* C1: for an order placed once on its cart, every line's quantity has been
\* added to its product's stock at most once when the restock of
\* CancelOrder is applied: a line that CancelItem already credited is not
\* credited again.
C1_CreditedAtMostOnce ==
  [][\A b \in pendingBulk :
       pendingBulk' = pendingBulk \ {b}
       => \A l \in Range(b.products) :
            placed[CartOfItem(l.id)] = 1 => credited'[l.id] <= 1]_vars

\* C2: a CancelItem request addressed with the line's own order and cart
\* succeeds; it answers orderCancelled: true exactly when every line of the
\* cart is then Cancelled, and exactly then the order and the cart are gone
\* (and each line has been through a cancellation); otherwise both remain.
C2_LastLineDeletes ==
  [][\A p \in Procs :
       (Responds(p) /\ proc'[p].op = "item" /\ proc'[p].own
          /\ proc'[p].status = Cancelled)
       => LET r == proc'[p]
              all == /\ r.cartId \in DOMAIN carts
                     /\ \A l \in Range(carts[r.cartId]) : l.status = Cancelled
          IN /\ r.res = 200
             /\ r.orderCancelled = all
             /\ all => /\ r.orderId \notin DOMAIN orders'
                       /\ r.cartId \notin DOMAIN carts'
                       /\ \A l \in Range(carts[r.cartId]) : credited[l.id] >= 1
             /\ ~all => /\ r.orderId \in DOMAIN orders'
                        /\ r.cartId \in DOMAIN carts']_vars

\* C2 witness: the second of two one-at-a-time cancellations on the
\* two-line cart has deleted the order and the cart.
C2_Witness ==
  \E p \in Procs :
    /\ proc[p].pc = "done" /\ proc[p].op = "item" /\ proc[p].own
    /\ proc[p].cartId = "c1" /\ proc[p].orderCancelled
    /\ credited["i1"] = 1 /\ credited["i2"] = 1
    /\ "c1" \notin DOMAIN carts /\ proc[p].orderId \notin DOMAIN orders

\* C3: get (of a well-formed order id, of an order that exists or not)
\* answers 200 with the order's data exactly when the order exists,
\* its cart exists and the requester is Admin or the owner; otherwise it
\* answers 404 and carries no order data.
C3_GetIsolation ==
  [][\A p \in Procs :
       (Responds(p) /\ proc'[p].op = "get")
       => LET r == proc'[p]
              visible ==
                /\ r.orderId \in DOMAIN orders
                /\ orders[r.orderId].cart \in DOMAIN carts
                /\ \/ Role(r.user) = ROLES.Admin
                   \/ orders[r.orderId].user = r.user
          IN IF visible THEN r.res = 200 /\ r.data = r.orderId
                        ELSE r.res = 404 /\ r.data = 0]_vars

\* C3 witness: a non-privileged requester asked for another user's order,
\* which exists with its cart, and got NotFound.
C3_Witness ==
  \E p \in Procs :
    /\ proc[p].pc = "done" /\ proc[p].op = "get" /\ proc[p].res = 404
    /\ proc[p].orderId \in DOMAIN orders
    /\ orders[proc[p].orderId].cart \in DOMAIN carts
    /\ Role(proc[p].user) # ROLES.Admin
    /\ orders[proc[p].orderId].user # proc[p].user

\* C4: a CancelItem request on a line that is already Cancelled (its order
\* still there) changes no product quantity.
C4_RepeatCancelNoRestock ==
  [][\A p \in Procs :
       (Steps(p) /\ proc[p].pc # "done" /\ proc[p].op = "item"
          /\ proc[p].status = Cancelled /\ proc[p].own /\ proc[p].wasCancelled)
       => stock' = stock]_vars

\* C5: a CancelOrder request from a user who neither owns the order nor is
\* Admin changes no order, no cart and no product quantity.
C5_CancelNeedsOwnerOrAdmin ==
  [][\A p \in Procs :
       (Steps(p) /\ proc[p].pc # "done" /\ proc[p].op = "cancel"
          /\ proc[p].order # NoOrder
          /\ Role(proc[p].user) # ROLES.Admin
          /\ proc[p].order.user # proc[p].user)
       => /\ orders' = orders
          /\ carts' = carts
          /\ stock' = stock]_vars

\* C6: of two CancelItem requests on the two lines of one cart, both lines
\* not yet Cancelled when found, exactly one answers that it cancelled
\* (deleted) the order.
C6_ExactlyOneDeletes ==
  \A p, q \in Procs :
    (/\ p # q
     /\ proc[p].pc = "done" /\ proc[q].pc = "done"
     /\ proc[p].op = "item" /\ proc[q].op = "item"
     /\ proc[p].status = Cancelled /\ proc[q].status = Cancelled
     /\ proc[p].own /\ proc[q].own
     /\ ~proc[p].wasCancelled /\ ~proc[q].wasCancelled
     /\ proc[p].cartId = proc[q].cartId
     /\ proc[p].itemId # proc[q].itemId
     /\ Len(InitCarts[proc[p].cartId]) = 2)
    => (proc[p].orderCancelled # proc[q].orderCancelled)

\* C7: no cancel operation has deleted its order while its restock is not
\* yet applied.
C7_RestockBeforeDelete ==
  \A p \in Procs :
    /\ (proc[p].op = "cancel" /\ proc[p].pc \in {"cancel_deleteCart", "done"})
         => ~ \E b \in pendingBulk : b.no = proc[p].no
    /\ proc[p].pc = "item_deleteCart" => credited[proc[p].itemId] >= 1

\* C8: when CancelOrder has answered success, the order and its cart are
\* gone and the restock of the cart's lines has been applied to the stock.
C8_CancelOrderEffect ==
  \A p \in Procs :
    (proc[p].op = "cancel" /\ proc[p].pc = "done" /\ proc[p].res = 200)
    => /\ proc[p].order.id \notin DOMAIN orders
       /\ proc[p].order.cart \notin DOMAIN carts
       /\ \A b \in pendingBulk : b.no # proc[p].no

\* C9: the step of Place in which the notification fails leaves the order
\* that Place created in the Order collection.
C9_NotifyFailureKeepsOrder ==
  [][\A p \in Procs :
       (Steps(p) /\ proc[p].op = "add" /\ proc'[p].mail = "failed")
       => /\ proc[p].orderId \in DOMAIN orders'
          /\ orders'[proc[p].orderId] =
               [cart |-> proc[p].cartId, user |-> proc[p].user]]_vars

\* C9 witness: Place answered an error after its notification failed and
\* its order is in the collection.
C9_Witness ==
  \E p \in Procs :
    /\ proc[p].pc = "done" /\ proc[p].op = "add" /\ proc[p].mail = "failed"
    /\ proc[p].res = 400
    /\ proc[p].orderId \in DOMAIN orders

\* C10: no two orders reference the same cart.
C10_CartBoundToOneOrder ==
  \A o1, o2 \in DOMAIN orders :
    o1 # o2 => orders[o1].cart # orders[o2].cart

\* C11: a Place request whose cartId references no existing cart creates
\* no order.
C11_PlaceNeedsValidCart ==
  [][\A p \in Procs :
       (Steps(p) /\ proc'[p].op = "add" /\ proc'[p].pc = "add_populate"
          /\ proc'[p].cartId \notin DOMAIN carts)
       => orders' = orders]_vars

\* C14: every step of a request that sets a status other than Cancelled
\* leaves the product quantities, the orders and the set of carts as they
\* are, and changes no line other than the one matching itemId, of which it
\* changes only the status.
C14_SetStatusFrame ==
  [][\A p \in Procs :
       (Steps(p) /\ proc'[p].op = "item" /\ proc'[p].status # Cancelled)
       => /\ stock' = stock
          /\ orders' = orders
          /\ pendingBulk' = pendingBulk
          /\ DOMAIN carts' = DOMAIN carts
          /\ \A c \in DOMAIN carts :
               /\ DOMAIN carts'[c] = DOMAIN carts[c]
               /\ \A k \in DOMAIN carts[c] :
                    IF carts[c][k].id = proc'[p].itemId
                      THEN [carts'[c][k] EXCEPT !.status = carts[c][k].status]
                             = carts[c][k]
                      ELSE carts'[c][k] = carts[c][k]]_vars

\* C14 witness: a request has set line i1 of the two-line cart to
\* Processing and answered success; line i2 keeps its first status.
C14_Witness ==
  \E p \in Procs :
    /\ proc[p].pc = "done" /\ proc[p].op = "item" /\ proc[p].res = 200
    /\ proc[p].status = CART_ITEM_STATUS.Processing
    /\ proc[p].itemId = "i1"
    /\ "c1" \in DOMAIN carts
    /\ carts["c1"][1].status = CART_ITEM_STATUS.Processing
    /\ carts["c1"][2].status = CART_ITEM_STATUS.Not_processed

\* C12: when a persistence call of a cancel request rejects, the statuses,
\* the quantities, the orders and the carts are as they were when the
\* request began.
C12_FailedCancelChangesNothing ==
  [][\A p \in Procs :
       (Steps(p) /\ proc'[p].fault # "none")
       => proc[p].before = [stock |-> stock', carts |-> carts',
                            orders |-> orders']]_vars

\* C13: when a cancel request that repeats one rejected after its restock
\* and before its order deletion answers success, each line it restocks has
\* been credited exactly once, counting the batches still in flight.
C13_RetryCreditsOnce ==
  [][\A p \in Procs :
       (Responds(p) /\ proc'[p].retry /\ proc'[p].res = 200)
       => /\ proc'[p].op = "item" => credited'[proc'[p].itemId] = 1
          /\ proc'[p].op = "cancel" =>
               \A l \in Range(proc[p].products) :
                 credited'[l.id]
                   + Cardinality({b \in pendingBulk' :
                                    l.id \in {x.id : x \in Range(b.products)}})
                   = 1]_vars

\* C15: a search whose string is not a well-formed identifier is answered
\* with success and an empty order list.
C15_MalformedSearchIsEmpty ==
  [][\A p \in Procs :
       (Responds(p) /\ proc'[p].op = "search" /\ ~proc'[p].search.valid)
       => proc'[p].res = 200 /\ proc'[p].list = << >>]_vars

\* The order a get of id by u returns: it exists, u is Admin or its owner,
\* and its cart exists.
GetReturns(u, id) ==
  /\ id \in DOMAIN orders
  /\ Role(u) = ROLES.Admin \/ orders[id].user = u
  /\ orders[id].cart \in DOMAIN carts

\* C16: a search with a well-formed identifier is answered with the list
\* holding exactly the order a get of that identifier returns to the same
\* requester, and with the empty list when get returns none.
C16_SearchAgreesWithGet ==
  [][\A p \in Procs :
       (Responds(p) /\ proc'[p].op = "search" /\ proc'[p].search.valid)
       => /\ proc'[p].res = 200
          /\ proc'[p].list =
               IF GetReturns(proc'[p].user, proc'[p].search.id)
                 THEN <<proc'[p].search.id>> ELSE << >>]_vars

\* C17: the orders a list-all response gives to a requester who is not
\* Admin, and the orders a list-my-orders response gives to anyone, are
\* owned by the requester.
C17_ListsOnlyOwnOrders ==
  [][\A p \in Procs :
       (Responds(p) /\ proc'[p].op \in {"list", "me"}
          /\ (proc'[p].op = "list" => Role(proc'[p].user) # ROLES.Admin))
       => \A k \in DOMAIN proc'[p].list :
            orders[proc'[p].list[k]].user = proc'[p].user]_vars

\* The orders the list request of slot record r ranges over.
ListScope(r) ==
  IF r.op = "me" THEN {o \in DOMAIN orders : orders[o].user = r.user}
                 ELSE DOMAIN orders

\* C18: a list response for (page, limit), page and limit at least 1,
\* holds the orders at positions (page - 1) * limit .. page * limit - 1 of
\* the matching orders taken newest first, its count is the number of
\* matching orders, and its totalPages is the least number of pages of
\* limit orders that hold them all.
C18_ListPage ==
  [][\A p \in Procs :
       (Responds(p) /\ proc'[p].op \in {"list", "me"})
       => LET r == proc'[p]
              M == ListScope(r)
              n == Cardinality(M)
              first == (r.page - 1) * r.limit
              \* position of order o among M, newest first, from 0
              Pos(o) == Cardinality({x \in M : x > o})
          IN /\ r.res = 200
             /\ DOMAIN r.list = 1..Cardinality({o \in M :
                                    first <= Pos(o) /\ Pos(o) < first + r.limit})
             /\ \A k \in DOMAIN r.list :
                  r.list[k] \in M /\ Pos(r.list[k]) = first + k - 1
             /\ r.count = n
             /\ r.totalPages * r.limit >= n
             /\ (r.totalPages - 1) * r.limit < n
             /\ r.currentPage = r.page]_vars

\* C18 witness: with two orders placed, the second page of size 1 has been
\* answered with the older order, count 2 and 2 pages.
C18_Witness ==
  \E p \in Procs :
    /\ proc[p].pc = "done" /\ proc[p].op = "list" /\ proc[p].res = 200
    /\ proc[p].page = 2 /\ proc[p].limit = 1
    /\ DOMAIN orders = {1, 2}
    /\ proc[p].list = <<1>>
    /\ proc[p].count = 2 /\ proc[p].totalPages = 2

\* Quantity the restocks applied so far have added to product pr.
RECURSIVE RestockedSum(_, _)
RestockedSum(pr, lines) ==
  IF lines = {} THEN 0
  ELSE LET l == CHOOSE x \in lines : TRUE
       IN (IF l.product = pr THEN credited[l.id] * l.quantity ELSE 0)
            + RestockedSum(pr, lines \ {l})

AllLines == UNION {Range(InitCarts[c]) : c \in DOMAIN InitCarts}

\* C19: with cancellations of different orders in flight together, the
\* quantity of every product is its initial quantity plus the sum of the
\* quantities restocked so far: no restock is lost.
C19_NoLostRestock ==
  \A pr \in Products :
    stock[pr] = InitStock[pr] + RestockedSum(pr, AllLines)

\* C19 witness: the cancellations of line i1 (order 1) and line i3
\* (order 2), both of product pA, have overlapped, each has restocked, and
\* pA holds 3 + 2 + 1.
C19_Witness ==
  /\ proc[1].pc = "item_findCart" /\ proc[2].pc = "item_findCart"
  /\ {proc[1].itemId, proc[2].itemId} = {"i1", "i3"}
  /\ {proc[1].orderId, proc[2].orderId} = {1, 2}
  /\ credited["i1"] = 1 /\ credited["i3"] = 1
  /\ stock["pA"] = 6

\* C20: a login answers 200 with a token and the user when the email is
\* that of a registered email-provider user and the password is that
\* user's, and answers 400 with an error and no token otherwise.
C20_LoginTokenIffValid ==
  [][\A p \in Procs :
       (Responds(p) /\ proc'[p].op = "login")
       => LET r == proc'[p]
              valid == \E k \in DOMAIN users :
                         /\ users[k].email = r.email
                         /\ users[k].provider = EMAIL_PROVIDER.Email
                         /\ users[k].password = Hash(r.password)
          IN IF valid THEN r.res = 200 /\ r.token /\ ~r.error
                      ELSE r.res = 400 /\ r.error /\ ~r.token]_vars

\* C22: when a Place request is answered with a failure, the order its
\* Order.create inserted is not in the collection.
C22_FailedPlaceCreatesNothing ==
  [][\A p \in Procs :
       (Responds(p) /\ proc'[p].op = "add" /\ proc'[p].res # 200)
       => proc'[p].orderId \notin DOMAIN orders']_vars

\* C23: a CancelItem whose itemId, orderId and cartId do not belong
\* together is answered with a failure, and no step of it changes a line
\* status, a product quantity, the orders or the carts.
C23_InconsistentCancelItemFails ==
  [][\A p \in Procs :
       (Steps(p) /\ proc'[p].op = "item" /\ proc'[p].status = Cancelled
          /\ ~proc'[p].own)
       => /\ carts' = carts /\ stock' = stock /\ orders' = orders
          /\ proc'[p].pc = "done" => proc'[p].res # 200]_vars

\* C24: when no request is in flight, the cart of every order exists, and
\* every cart that was ordered and still exists is the cart of an order.
C24_ReferentialIntegrityAtRest ==
  Quiet =>
    /\ \A o \in DOMAIN orders : orders[o].cart \in DOMAIN carts
    /\ \A c \in DOMAIN carts :
         placed[c] > 0 => \E o \in DOMAIN orders : orders[o].cart = c

AuthOps == {"login", "register", "forgot", "reset"}

\* C26: no step of an auth request attempts a response after one was sent,
\* and once a request has sent an error response none of its steps changes
\* the users.
C26_ExactlyOneResponse ==
  [][\A p \in Procs :
       (Steps(p) /\ proc'[p].op \in AuthOps)
       => /\ ~proc'[p].unhandled
          /\ (~Idle(p) /\ proc[p].res = 400) => users' = users]_vars

\* C27: no two user documents have the same email, and no step of a
\* register request that found its email taken changes the users.
C27_EmailsUnique ==
  [][/\ \A j, k \in DOMAIN users' :
          j # k => users'[j].email # users'[k].email
     /\ \A p \in Procs :
          (Steps(p) /\ proc'[p].op = "register" /\ proc'[p].existed)
          => users' = users]_vars

C25_QuantityNonNegative ==
  Quiet => \A d \in DOMAIN stock : stock[d] >= 0

\* C28: whenever no request is in flight, no two products have the same
\* sku.
C28_SkusUnique ==
  Quiet => \A d, e \in DOMAIN skus : skus[d].sku = skus[e].sku => d = e

====
